---- MODULE Spec2Model ----
(***************************************************************************)
(* One invocation of the atlassian_mcp command line (cli.py) over the      *)
(* transport client (client.py).  A state is the position of main() and of *)
(* the command coroutine it runs, the process-wide client handle, the      *)
(* client's HTTP session, the requests issued, and what has been printed.  *)
(* The server and the environment (variables, standard input, files) are   *)
(* the nondeterministic part.                                              *)
(*                                                                         *)
(* Python strings that the code inspects (strip, startswith, `in`) are     *)
(* sequences of one-character strings; what goes on the wire is rendered   *)
(* with ToStr into a TLA+ string.  Optional[str] is a record               *)
(* [is_none, val].                                                         *)
(***************************************************************************)
EXTENDS Integers, Sequences, FiniteSets, TLC

\* ------------------------------------------------------------------ bounds
\* Longest text (inline, standard input, file) the model draws.
MaxLen == 2
\* Longest confluence-search query the model draws.
MaxQueryLen == 3
\* Largest --max the model draws (the spec's example is 150).
MaxRequested == 150
\* Largest page version the server returns.
MaxVersion == 5

\* ------------------------------------------------------- program constants
MaxResultsCap == 100

\* ----------------------------------------------------------------- strings
TextChars == {" ", "<", "a"}
QueryChars == {"=", "~", " ", "A", "N", "D", "O", "R", "I"}
Whitespace == {" ", "\t", "\n", "\r"}

StringsOver(chars, n) == UNION {[1..k -> chars] : k \in 0..n}

RECURSIVE ToStr(_)
ToStr(s) == IF s = <<>> THEN "" ELSE Head(s) \o ToStr(Tail(s))

RECURSIVE lstrip(_)
lstrip(s) == IF s # <<>> /\ Head(s) \in Whitespace THEN lstrip(Tail(s)) ELSE s

RECURSIVE rstrip(_)
rstrip(s) ==
  IF s # <<>> /\ s[Len(s)] \in Whitespace THEN rstrip(SubSeq(s, 1, Len(s) - 1)) ELSE s

strip(s) == rstrip(lstrip(s))

startswith(s, prefix) ==
  Len(s) >= Len(prefix) /\ SubSeq(s, 1, Len(prefix)) = prefix

\* Python's `op in query` on strings: op occurs as a contiguous substring.
contains(s, op) ==
  \E i \in 1..(Len(s) - Len(op) + 1) : SubSeq(s, i, i + Len(op) - 1) = op

DigitStr(d) ==
  CASE d = 0 -> "0" [] d = 1 -> "1" [] d = 2 -> "2" [] d = 3 -> "3" [] d = 4 -> "4"
    [] d = 5 -> "5" [] d = 6 -> "6" [] d = 7 -> "7" [] d = 8 -> "8" [] d = 9 -> "9"

RECURSIVE NatStr(_)
NatStr(n) == IF n < 10 THEN DigitStr(n) ELSE NatStr(n \div 10) \o DigitStr(n % 10)

\* Python's str(int).
str(n) == IF n < 0 THEN "-" \o NatStr(0 - n) ELSE NatStr(n)

\* ---------------------------------------------------------------- optionals
\* Optional text (a sequence of characters).
None == [is_none |-> TRUE, val |-> <<>>]
Some(v) == [is_none |-> FALSE, val |-> v]
\* Optional name (an environment value, a path): a TLA+ string.
Unset == [is_none |-> TRUE, val |-> ""]
IsNotNone(o) == ~o.is_none

\* Python truthiness of an optional text: None and "" are falsy.
truthy(o) == ~o.is_none /\ o.val # <<>>

\* ------------------------------------------------------------- environment
\* os.getenv(name, default): the default when the variable is unset.
getenv(e, name, default) == IF e[name].is_none THEN default ELSE e[name].val

\* The environment is the one load_dotenv() leaves.  The credentials are TLA+
\* strings; the timeout, which int() parses, is a sequence of characters.
EnvValues == {Unset, Some(""), Some("set")}
TimeoutValues == {None, Some(<<"1", "0">>), Some(<<"a">>), Some(<<>>)}
Envs ==
  [ATLASSIAN_EMAIL : EnvValues, ATLASSIAN_API_TOKEN : EnvValues,
   ATLASSIAN_TIMEOUT : TimeoutValues]
GoodEnv ==
  [ATLASSIAN_EMAIL |-> Some("set"), ATLASSIAN_API_TOKEN |-> Some("set"),
   ATLASSIAN_TIMEOUT |-> None]

Digits == {"0", "1", "2", "3", "4", "5", "6", "7", "8", "9"}

\* int(s) returns (rather than raising ValueError): blanks around an optional
\* sign and at least one digit.
int_parses(s) ==
  LET t == strip(s)
      u == IF t # <<>> /\ t[1] \in {"+", "-"} THEN Tail(t) ELSE t
  IN u # <<>> /\ \A i \in 1..Len(u) : u[i] \in Digits

\* `int(os.getenv("ATLASSIAN_TIMEOUT", "30"))` raises.
timeout_raises(e) == ~int_parses(getenv(e, "ATLASSIAN_TIMEOUT", <<"3", "0">>))

\* AtlassianConfig.__init__: the names of the missing variables, in order.
MissingOnlyEmail(e) ==
  IF getenv(e, "ATLASSIAN_EMAIL", "") = "" THEN <<"ATLASSIAN_EMAIL">> ELSE <<>>

missing(e) ==
  (IF getenv(e, "ATLASSIAN_EMAIL", "") = "" THEN <<"ATLASSIAN_EMAIL">> ELSE <<>>)
  \o (IF getenv(e, "ATLASSIAN_API_TOKEN", "") = "" THEN <<"ATLASSIAN_API_TOKEN">> ELSE <<>>)

\* ------------------------------------------------------------ _resolve_text
ExistingFile == "content.html"
MissingFile == "missing.html"

\* [raised, source, value]: which source was read, and what it gave.
ResolveInlineFirst(inline, file_path, in, fs) ==
  IF ~inline.is_none THEN [raised |-> FALSE, source |-> "inline", value |-> inline]
  ELSE IF file_path.is_none THEN [raised |-> FALSE, source |-> "inline", value |-> inline]
  ELSE IF file_path.val = "-" THEN [raised |-> FALSE, source |-> "stdin", value |-> Some(in)]
  ELSE IF file_path.val \in DOMAIN fs
    THEN [raised |-> FALSE, source |-> "file", value |-> Some(fs[file_path.val])]
  ELSE [raised |-> TRUE, source |-> "file", value |-> None]

resolve_text(inline, file_path, in, fs) ==
  IF ~file_path.is_none THEN
    IF file_path.val = "-" THEN [raised |-> FALSE, source |-> "stdin", value |-> Some(in)]
    ELSE IF file_path.val \in DOMAIN fs
      THEN [raised |-> FALSE, source |-> "file", value |-> Some(fs[file_path.val])]
    ELSE [raised |-> TRUE, source |-> "file", value |-> None]
  ELSE [raised |-> FALSE, source |-> "inline", value |-> inline]

\* ------------------------------------------------- cli.py: storage wrapping
\* `if not body.strip().startswith("<"): body = f"<p>{body}</p>"`
WrapUntrimmed(body) ==
  IF ~startswith(body, <<"<">>) THEN "<p>" \o ToStr(body) \o "</p>" ELSE ToStr(body)

wrap_storage(body) ==
  IF ~startswith(strip(body), <<"<">>) THEN "<p>" \o ToStr(body) \o "</p>" ELSE ToStr(body)

\* ------------------------------------------------ client.py: request builders
IssueKey == "RFID-42"
PageId == "12345678"
ProjectKey == "RFID"
Summary == "Fix reader"
IssueType == "Task"
Jql == "project = RFID"
SpaceKey == "RFID"
Title == "Updated"

NoCap(n) == n

\* search_issues: `if max_results > 100: max_results = 100`
cap_max_results(n) == IF n > MaxResultsCap THEN MaxResultsCap ELSE n

\* search_confluence: `if limit > 100: limit = 100`
cap_limit(n) == IF n > MaxResultsCap THEN MaxResultsCap ELSE n

search_issues(jql, max_results) ==
  [method |-> "GET", url |-> "/rest/api/3/search/jql",
   params |-> [jql |-> jql,
               maxResults |-> str(cap_max_results(max_results)),
               startAt |-> str(0),
               fields |-> "summary,status,assignee,reporter,priority,issuetype,created,updated,labels"]]

get_issue(issue_key, expand) ==
  [method |-> "GET", url |-> "/rest/api/3/issue/" \o issue_key,
   params |-> [expand |-> expand]]

\* The Atlassian Document Format body create_issue builds for a str description
\* (the command line gives no other kind).
DescriptionAlways(description) ==
  "description" :> [version |-> 1, type |-> "doc",
                    content |-> << [type |-> "paragraph",
                                    content |-> << [type |-> "text",
                                                    text |-> ToStr(description.val)] >>] >>]

description_field(description) ==
  IF truthy(description)
  THEN "description" :> [version |-> 1, type |-> "doc",
                         content |-> << [type |-> "paragraph",
                                         content |-> << [type |-> "text",
                                                         text |-> ToStr(description.val)] >>] >>]
  ELSE <<>>

create_issue(project_key, summary, issue_type, description) ==
  [method |-> "POST", url |-> "/rest/api/3/issue",
   json |-> [fields |-> description_field(description)
                        @@ [project |-> [key |-> project_key],
                            summary |-> summary,
                            issuetype |-> [name |-> issue_type]]]]

adf_body(body_text) ==
  [version |-> 1, type |-> "doc",
   content |-> << [type |-> "paragraph",
                   content |-> << [type |-> "text", text |-> ToStr(body_text)] >>] >>]

add_comment(issue_key, body_text) ==
  [method |-> "POST", url |-> "/rest/api/3/issue/" \o issue_key \o "/comment",
   json |-> [body |-> adf_body(body_text)]]

test_jira_connection_request == [method |-> "GET", url |-> "/rest/api/3/myself"]

test_confluence_connection_request ==
  [method |-> "GET", url |-> "/wiki/api/v2/spaces", params |-> [limit |-> "1"]]

CqlOperators == << <<"=">>, <<"~">>, <<"A", "N", "D">>, <<"O", "R">>, <<"I", "N">> >>

\* `any(op in query for op in ["=", "~", "AND", "OR", "IN"])`
has_operator(query) == \E i \in 1..Len(CqlOperators) : contains(query, CqlOperators[i])

RECURSIVE join(_, _)
join(sep, parts) ==
  IF parts = <<>> THEN ""
  ELSE IF Len(parts) = 1 THEN parts[1]
  ELSE parts[1] \o sep \o join(sep, Tail(parts))

build_cql(query, space_key) ==
  join(" AND ",
       << "type = \"page\"" >>
       \o (IF truthy(space_key) THEN << "space = \"" \o ToStr(space_key.val) \o "\"" >> ELSE <<>>)
       \o (IF has_operator(query)
           THEN << "(" \o ToStr(query) \o ")" >>
           ELSE << "text ~ \"" \o ToStr(query) \o "\"" >>))

search_confluence(query, space_key, limit) ==
  [method |-> "GET", url |-> "/wiki/rest/api/content/search",
   params |-> [cql |-> build_cql(query, space_key),
               limit |-> str(cap_limit(limit)),
               start |-> str(0)]]

get_confluence_page(page_id) ==
  [method |-> "GET", url |-> "/wiki/rest/api/content/" \o page_id,
   params |-> [expand |-> "body.storage,version,space"]]

create_confluence_page(space_key, title, body_html) ==
  [method |-> "POST", url |-> "/wiki/rest/api/content",
   json |-> [type |-> "page", title |-> title, space |-> [key |-> space_key],
             body |-> [storage |-> [value |-> body_html, representation |-> "storage"]]]]

update_confluence_page(page_id, title, body_html, version_number) ==
  [method |-> "PUT", url |-> "/wiki/rest/api/content/" \o page_id,
   json |-> [type |-> "page", title |-> title,
             version |-> [number |-> version_number],
             body |-> [storage |-> [value |-> body_html, representation |-> "storage"]]]]

add_confluence_comment(page_id, body_html) ==
  [method |-> "POST", url |-> "/wiki/rest/api/content",
   json |-> [type |-> "comment", container |-> [id |-> page_id, type |-> "page"],
             body |-> [storage |-> [value |-> body_html, representation |-> "storage"]]]]

\* ------------------------------------------------------------------- state
VARIABLES
  pc,                 \* where the process is: main, cmd, initialize, call, await, resume, close, done
  args,               \* the parsed command line (argparse namespace)
  env,                \* the environment variables
  stdin,              \* what standard input holds
  files,              \* the readable files: path -> content
  text,               \* main's resolved text: [raised, source, value]
  _atlassian_client,  \* the process-wide client handle: "None" or "client"
  _client,            \* AtlassianClient._client: 0 for None, else the session's id
  live,               \* the HTTP sessions created and not yet closed
  opened,             \* how many HTTP sessions were ever created
  inflight,           \* the requests sent and not yet answered
  sent,               \* every request issued, in order
  resp,               \* the response to the last request
  received,           \* every response received, in order
  raised,             \* every exception raised, caught by main or swallowed, in order
  locals,             \* the command coroutine's locals: jira_ok, conf_ok, current_version
  stdout,             \* what was printed to standard output
  stderr,             \* what was printed to standard error
  exit_code,          \* <<>> while running, <<status>> once the process has exited
  caught,             \* how many times main's `except Exception` ran
  ops,                \* the operations one transport client has performed, in order
  upd,                \* the concurrent confluence-update invocations: name -> its state
  page                \* the page the server holds: version, body, accepted writes

vars == <<pc, args, env, stdin, files, text, _atlassian_client, _client, live, opened,
          inflight, sent, resp, received, raised, locals, stdout, stderr, exit_code,
          caught, ops, upd, page>>

inputs == <<args, env, stdin, files>>
world == <<inputs, ops, upd, page>>
session == <<_client, live, opened>>
output == <<stdout, stderr, exit_code, caught, raised>>

Commands ==
  {"test-connection", "jira-search", "jira-get", "jira-create", "jira-comment",
   "confluence-search", "confluence-get", "confluence-create", "confluence-update",
   "confluence-comment"}

\* The commands whose text main() requires to be non-empty.
TextRequired == {"jira-comment", "confluence-create", "confluence-update", "confluence-comment"}
TextCommands == TextRequired \cup {"jira-create"}

Texts == StringsOver(TextChars, MaxLen)
Queries == StringsOver(QueryChars, MaxQueryLen)

\* What the server can answer: a 2xx with the expected JSON, a non-2xx status, a
\* transport failure, a 2xx whose body is not JSON, a 2xx whose JSON has not the
\* shape the command reads.
Outcomes == {"ok", "non2xx", "transport", "bad_json", "bad_shape"}

\* The "version" of a fetched page: absent, {"number": null}, or {"number": n}.
NoVersion == [kind |-> "missing", n |-> 0]
Versions ==
  {NoVersion, [kind |-> "null", n |-> 0]} \cup {[kind |-> "int", n |-> v] : v \in 0..MaxVersion}

DefaultArgs(c) ==
  [command |-> c, max |-> 25, text |-> None, file |-> Unset, query |-> <<"A">>, space |-> None]

NotResolved == [raised |-> FALSE, source |-> "none", value |-> None]
NoResponse == [outcome |-> "none", version |-> NoVersion, title |-> "", body |-> ""]
NoLocals == [jira_ok |-> FALSE, conf_ok |-> FALSE, current_version |-> 0]

\* The command lines argparse accepts, with the standard input and files they read.
TextWorlds ==
  {[text |-> t, file |-> Unset, stdin |-> <<>>, content |-> <<>>] : t \in {None} \cup {Some(x) : x \in Texts}}
  \cup {[text |-> t, file |-> Some("-"), stdin |-> x, content |-> <<>>] :
          t \in {None, Some(<<"a">>)}, x \in Texts}
  \cup {[text |-> t, file |-> Some(ExistingFile), stdin |-> <<>>, content |-> x] :
          t \in {None, Some(<<"a">>)}, x \in Texts}
  \cup {[text |-> t, file |-> Some(MissingFile), stdin |-> <<"a">>, content |-> <<>>] :
          t \in {None, Some(<<"a">>)}}

ArgWorlds ==
  {[a |-> DefaultArgs(c), stdin |-> <<>>, content |-> <<>>] : c \in Commands}
  \cup {[a |-> [DefaultArgs("jira-search") EXCEPT !.max = n], stdin |-> <<>>, content |-> <<>>] :
          n \in (0 - 2)..MaxRequested}
  \cup {[a |-> [DefaultArgs("confluence-search") EXCEPT !.query = q, !.space = k],
          stdin |-> <<>>, content |-> <<>>] :
          q \in Queries, k \in {None, Some(<<>>), Some(<<"K">>)}}
  \cup {[a |-> [DefaultArgs("confluence-search") EXCEPT !.max = n], stdin |-> <<>>, content |-> <<>>] :
          n \in {MaxResultsCap, MaxRequested}}
  \cup {[a |-> [DefaultArgs(c) EXCEPT !.text = w.text, !.file = w.file],
          stdin |-> w.stdin, content |-> w.content] : c \in TextCommands, w \in TextWorlds}

\* No page is held when a single invocation runs against scripted responses.
NoPage == [version |-> 0, initial |-> 0, body |-> "", accepted |-> <<>>]

\* Every command line under a complete environment, and every environment under
\* each command with and without inline text.
Init ==
  /\ \/ \E w \in ArgWorlds :
          /\ args = w.a /\ stdin = w.stdin /\ files = (ExistingFile :> w.content)
          /\ env = GoodEnv
     \/ \E c \in Commands, t \in {None, Some(<<"a">>)}, f \in {Unset, Some(MissingFile)}, e \in Envs :
          /\ args = [DefaultArgs(c) EXCEPT !.text = IF c \in TextCommands THEN t ELSE None,
                                           !.file = IF c \in TextCommands THEN f ELSE Unset]
          /\ stdin = <<>> /\ files = (ExistingFile :> <<>>)
          /\ env = e
  /\ pc = "main"
  /\ text = NotResolved
  /\ _atlassian_client = "None"
  /\ _client = 0 /\ live = {} /\ opened = 0
  /\ inflight = {} /\ sent = <<>> /\ resp = NoResponse /\ received = <<>> /\ raised = <<>>
  /\ locals = NoLocals
  /\ stdout = <<>> /\ stderr = <<>> /\ exit_code = <<>> /\ caught = 0
  /\ ops = <<>> /\ upd = <<>> /\ page = NoPage

\* ---------------------------------------------------------- main(): cli.py
\* `except Exception as e: print(f"Error: {e}", file=sys.stderr); sys.exit(1)`
ExceptExitsZero(e) ==
  /\ stderr' = Append(stderr, [prefix |-> "Error:", error |-> e])
  /\ exit_code' = <<0>>
  /\ caught' = caught + 1
  /\ raised' = Append(raised, e)
  /\ pc' = "done"
  /\ stdout' = stdout

main_except(e) ==
  /\ stderr' = Append(stderr, [prefix |-> "Error:", error |-> e])
  /\ exit_code' = <<1>>
  /\ caught' = caught + 1
  /\ raised' = Append(raised, e)
  /\ pc' = "done"
  /\ stdout' = stdout

\* parser.error(...): argparse prints the usage to standard error and raises
\* SystemExit(2), which `except Exception` does not catch.
parser_error ==
  /\ stderr' = Append(stderr, [prefix |-> "usage:", error |-> "SystemExit"])
  /\ exit_code' = <<2>>
  /\ pc' = "done"
  /\ UNCHANGED <<stdout, caught, raised>>

\* The cases of main()'s match that resolve no text.
main_plain ==
  /\ pc = "main"
  /\ args.command \notin TextCommands
  /\ pc' = "cmd"
  /\ UNCHANGED <<world, text, _atlassian_client, session, inflight, sent, resp, received, locals, output>>

\* case "jira-create": the description is resolved and may be absent.
main_jira_create ==
  /\ pc = "main"
  /\ args.command = "jira-create"
  /\ LET r == resolve_text(args.text, args.file, stdin, files) IN
       /\ text' = r
       /\ IF r.raised THEN main_except("OSError")
          ELSE pc' = "cmd" /\ UNCHANGED output
  /\ UNCHANGED <<world, _atlassian_client, session, inflight, sent, resp, received, locals>>

\* case "jira-comment" | "confluence-create" | "confluence-update" |
\* "confluence-comment": the text is resolved and must be non-empty.
main_text_required ==
  /\ pc = "main"
  /\ args.command \in TextRequired
  /\ LET r == resolve_text(args.text, args.file, stdin, files) IN
       /\ text' = r
       /\ IF r.raised THEN main_except("OSError")
          ELSE IF ~truthy(r.value) THEN parser_error
          ELSE pc' = "cmd" /\ UNCHANGED output
  /\ UNCHANGED <<world, _atlassian_client, session, inflight, sent, resp, received, locals>>

\* ------------------------------------------------- client.py: the singleton
\* get_atlassian_client(): AtlassianConfig() raises ValueError when the timeout
\* is no number or a required variable is missing, before the handle is assigned.
get_atlassian_client ==
  /\ pc = "cmd"
  /\ IF _atlassian_client = "None" /\ (timeout_raises(env) \/ missing(env) # <<>>)
     THEN main_except("ValueError") /\ UNCHANGED _atlassian_client
     ELSE /\ _atlassian_client' = "client"
          /\ pc' = "initialize"
          /\ UNCHANGED output
  /\ UNCHANGED <<world, text, session, inflight, sent, resp, received, locals>>

\* ------------------------------------------------- client.py: the lifecycle
\* initialize() without its `if self._client is None` test: a session is
\* created every time, and the one held before is forgotten unclosed.
InitializeAlways ==
  /\ _client' = opened + 1
  /\ opened' = opened + 1
  /\ live' = live \cup {opened + 1}

\* AtlassianClient.initialize(): a session is created only when there is none.
initialize_client ==
  IF _client = 0
  THEN /\ _client' = opened + 1
       /\ opened' = opened + 1
       /\ live' = live \cup {opened + 1}
  ELSE UNCHANGED session

\* `await atl.initialize()` at the start of every command.
initialize ==
  /\ pc = "initialize"
  /\ initialize_client
  /\ pc' = "call"
  /\ UNCHANGED <<world, text, _atlassian_client, inflight, sent, resp, received, locals, output>>

\* AtlassianClient.close(): the session is closed and forgotten.
close_client ==
  IF _client # 0
  THEN /\ live' = live \ {_client}
       /\ _client' = 0
       /\ opened' = opened
  ELSE UNCHANGED session

\* `await atl.close()`, the last statement of every command; asyncio.run and
\* main() then return and the process exits with status 0.
close ==
  /\ pc = "close"
  /\ close_client
  /\ pc' = "done"
  /\ exit_code' = <<0>>
  /\ UNCHANGED <<world, text, _atlassian_client, inflight, sent, resp, received, locals,
                 stdout, stderr, caught, raised>>

\* _get / _post / _put up to the await: _ensure_client, then the request is sent.
request(req) ==
  /\ initialize_client
  /\ inflight' = inflight \cup {req}
  /\ sent' = Append(sent, req)
  /\ pc' = "await"
  /\ UNCHANGED <<world, text, _atlassian_client, resp, received, locals, output>>

calling(c, n) == pc = "call" /\ args.command = c /\ Len(sent) = n

\* ------------------------------------------------ cli.py: the command calls
\* Both checks sent at once, as asyncio.gather would.
GatherConnectionChecks ==
  /\ calling("test-connection", 0)
  /\ initialize_client
  /\ inflight' = inflight \cup {test_jira_connection_request, test_confluence_connection_request}
  /\ sent' = sent \o <<test_jira_connection_request, test_confluence_connection_request>>
  /\ pc' = "await"
  /\ UNCHANGED <<world, text, _atlassian_client, resp, received, locals, output>>

\* cmd_test_connection: `jira_ok = await atl.test_jira_connection()`
cmd_test_connection_jira ==
  /\ calling("test-connection", 0)
  /\ request(test_jira_connection_request)

\* cmd_test_connection: `conf_ok = await atl.test_confluence_connection()`
cmd_test_connection_confluence ==
  /\ calling("test-connection", 1)
  /\ request(test_confluence_connection_request)

cmd_jira_search ==
  /\ calling("jira-search", 0)
  /\ request(search_issues(Jql, args.max))

cmd_jira_get ==
  /\ calling("jira-get", 0)
  /\ request(get_issue(IssueKey, "renderedFields"))

cmd_jira_create ==
  /\ calling("jira-create", 0)
  /\ request(create_issue(ProjectKey, Summary, IssueType, text.value))

cmd_jira_comment ==
  /\ calling("jira-comment", 0)
  /\ request(add_comment(IssueKey, text.value.val))

cmd_confluence_search ==
  /\ calling("confluence-search", 0)
  /\ request(search_confluence(args.query, args.space, args.max))

cmd_confluence_get ==
  /\ calling("confluence-get", 0)
  /\ request(get_confluence_page(PageId))

cmd_confluence_create ==
  /\ calling("confluence-create", 0)
  /\ request(create_confluence_page(SpaceKey, Title, wrap_storage(text.value.val)))

\* cmd_confluence_update: `current = await atl.get_confluence_page(page_id)`
cmd_confluence_update_read ==
  /\ calling("confluence-update", 0)
  /\ request(get_confluence_page(PageId))

\* `(current.get("version") or {}).get("number", 1)`
current_version_of(version) == IF version.kind = "missing" THEN 1 ELSE version.n

SameVersion(current_version) == current_version

\* `current_version + 1`, the version number of the write
next_version(current_version) == current_version + 1

\* cmd_confluence_update: `await atl.update_confluence_page(page_id, title, body, ...)`
cmd_confluence_update_write ==
  /\ calling("confluence-update", 1)
  /\ request(update_confluence_page(PageId, Title, wrap_storage(text.value.val),
                                    next_version(locals.current_version)))

cmd_confluence_comment ==
  /\ calling("confluence-comment", 0)
  /\ request(add_confluence_comment(PageId, wrap_storage(text.value.val)))

\* ------------------------------------------------------------- the server
\* The page a confluence-update reads comes back with some version; the title
\* and body the server holds are not the ones on the command line.
FetchedTitle == "Original"
FetchedBody == "<p>original</p>"

Respond ==
  /\ pc = "await"
  /\ \E o \in Outcomes, v \in Versions :
       /\ (v # NoVersion) => (o = "ok" /\ args.command = "confluence-update" /\ Len(sent) = 1)
       /\ LET is_page == o = "ok" /\ sent[Len(sent)] = get_confluence_page(PageId)
              r == [outcome |-> o, version |-> v,
                    title |-> IF is_page THEN FetchedTitle ELSE "",
                    body |-> IF is_page THEN FetchedBody ELSE ""]
          IN resp' = r /\ received' = Append(received, r)
  /\ inflight' = {}
  /\ pc' = "resume"
  /\ UNCHANGED <<world, text, _atlassian_client, session, sent, locals, output>>

\* ------------------------------------- what the awaited call returns or raises
\* _get / _post / _put after the await: the transport error, raise_for_status()
\* and resp.json() raise inside the client method.
raises(o) == o \in {"non2xx", "transport", "bad_json"}

error_name(o) ==
  CASE o = "non2xx" -> "HTTPStatusError"
    [] o = "transport" -> "TransportError"
    [] o = "bad_json" -> "JSONDecodeError"
    [] o = "bad_shape" -> "KeyError"
    [] OTHER -> "none"

\* The check without its try/except: the exception reaches main().
TestJiraConnectionPropagates ==
  /\ pc = "resume"
  /\ args.command = "test-connection"
  /\ Len(sent) = 1
  /\ IF raises(resp.outcome)
     THEN main_except(error_name(resp.outcome)) /\ UNCHANGED locals
     ELSE /\ locals' = [locals EXCEPT !.jira_ok = TRUE]
          /\ pc' = "call"
          /\ UNCHANGED output
  /\ UNCHANGED <<world, text, _atlassian_client, session, inflight, sent, resp, received>>

\* test_jira_connection: True when _get returns, False on any exception.
test_jira_connection_return ==
  /\ pc = "resume"
  /\ args.command = "test-connection"
  /\ Len(sent) = 1
  /\ locals' = [locals EXCEPT !.jira_ok = ~raises(resp.outcome)]
  /\ raised' = IF raises(resp.outcome) THEN Append(raised, error_name(resp.outcome)) ELSE raised
  /\ pc' = "call"
  /\ UNCHANGED <<world, text, _atlassian_client, session, inflight, sent, resp, received,
                 stdout, stderr, exit_code, caught>>

\* test_confluence_connection, then the two lines cmd_test_connection prints.
test_confluence_connection_return ==
  /\ pc = "resume"
  /\ args.command = "test-connection"
  /\ Len(sent) = 2
  /\ LET conf_ok == ~raises(resp.outcome) IN
       /\ locals' = [locals EXCEPT !.conf_ok = conf_ok]
       /\ stdout' = stdout \o << [line |-> "Jira", ok |-> locals.jira_ok],
                                 [line |-> "Confluence", ok |-> conf_ok] >>
  /\ raised' = IF raises(resp.outcome) THEN Append(raised, error_name(resp.outcome)) ELSE raised
  /\ pc' = "close"
  /\ UNCHANGED <<world, text, _atlassian_client, session, inflight, sent, resp, received,
                 stderr, exit_code, caught>>

\* The read without raise_for_status(): whatever came back is used.
UpdateIgnoresReadStatus ==
  /\ pc = "resume"
  /\ args.command = "confluence-update"
  /\ Len(sent) = 1
  /\ locals' = [locals EXCEPT !.current_version = current_version_of(resp.version)]
  /\ pc' = "call"
  /\ UNCHANGED <<world, text, _atlassian_client, session, inflight, sent, resp, received,
                 output>>

\* cmd_confluence_update between its two awaits: the fetched version is read.
cmd_confluence_update_version ==
  /\ pc = "resume"
  /\ args.command = "confluence-update"
  /\ Len(sent) = 1
  /\ IF resp.outcome # "ok"
     THEN main_except(error_name(resp.outcome)) /\ UNCHANGED locals
     ELSE IF resp.version.kind = "null"
     THEN main_except("TypeError") /\ UNCHANGED locals
     ELSE /\ locals' = [locals EXCEPT !.current_version = current_version_of(resp.version)]
          /\ pc' = "call"
          /\ UNCHANGED output
  /\ UNCHANGED <<world, text, _atlassian_client, session, inflight, sent, resp, received>>

\* Every command after its last await: the response is flattened and printed.
cmd_print_json ==
  /\ pc = "resume"
  /\ args.command # "test-connection"
  /\ args.command = "confluence-update" => Len(sent) = 2
  /\ IF resp.outcome # "ok"
     THEN main_except(error_name(resp.outcome))
     ELSE /\ stdout' = Append(stdout, [json |-> args.command])
          /\ pc' = "close"
          /\ UNCHANGED <<stderr, exit_code, caught, raised>>
  /\ UNCHANGED <<world, text, _atlassian_client, session, inflight, sent, resp, received, locals>>

Next ==
  \/ main_plain
  \/ main_jira_create
  \/ main_text_required
  \/ get_atlassian_client
  \/ initialize
  \/ cmd_test_connection_jira
  \/ cmd_test_connection_confluence
  \/ cmd_jira_search
  \/ cmd_jira_get
  \/ cmd_jira_create
  \/ cmd_jira_comment
  \/ cmd_confluence_search
  \/ cmd_confluence_get
  \/ cmd_confluence_create
  \/ cmd_confluence_update_read
  \/ cmd_confluence_update_write
  \/ cmd_confluence_comment
  \/ Respond
  \/ test_jira_connection_return
  \/ test_confluence_connection_return
  \/ cmd_confluence_update_version
  \/ cmd_print_json
  \/ close

Spec == Init /\ [][Next]_vars

TypeOK ==
  /\ pc \in {"main", "cmd", "initialize", "call", "await", "resume", "close", "done",
            "client", "concurrent"}
  /\ _atlassian_client \in {"None", "client"}
  /\ Cardinality(live) <= opened

\* ------------------------------------ one transport client, any operations
\* AtlassianClient used on its own: initialize(), close() and requests (_get,
\* _post, _put) in any order, each awaited before the next starts.
MaxOps == 5

idle == <<pc, inputs, text, _atlassian_client, inflight, sent, resp, received, locals,
          output, upd, page>>

\* The session fields as one operation finds and leaves them.
session_of(c, l, n) == [_client |-> c, live |-> l, opened |-> n]

performed(op) ==
  ops' = Append(ops, [op |-> op,
                      before |-> session_of(_client, live, opened),
                      after |-> session_of(_client', live', opened')])

\* `await client.initialize()`
client_initialize ==
  /\ pc = "client"
  /\ Len(ops) < MaxOps
  /\ initialize_client
  /\ performed("initialize")
  /\ UNCHANGED idle

\* `await client.close()`
client_close ==
  /\ pc = "client"
  /\ Len(ops) < MaxOps
  /\ close_client
  /\ performed("close")
  /\ UNCHANGED idle

\* _get / _post / _put: `await self._ensure_client()`, then the request on the
\* session; whether it returns or raises, the session is left as it is.
client_request ==
  /\ pc = "client"
  /\ Len(ops) < MaxOps
  /\ initialize_client
  /\ \E o \in {"ok", "non2xx", "transport"} :
       performed(IF raises(o) THEN "request_raised" ELSE "request")
  /\ UNCHANGED idle

\* A constructed client: `self._client = None`.
Init15 ==
  /\ pc = "client"
  /\ args = DefaultArgs("test-connection") /\ stdin = <<>> /\ files = (ExistingFile :> <<>>)
  /\ env = GoodEnv
  /\ text = NotResolved
  /\ _atlassian_client = "client"
  /\ _client = 0 /\ live = {} /\ opened = 0
  /\ inflight = {} /\ sent = <<>> /\ resp = NoResponse /\ received = <<>> /\ raised = <<>>
  /\ locals = NoLocals
  /\ stdout = <<>> /\ stderr = <<>> /\ exit_code = <<>> /\ caught = 0
  /\ ops = <<>> /\ upd = <<>> /\ page = NoPage

Next15 ==
  \/ client_initialize
  \/ client_close
  \/ client_request

Spec15 == Init15 /\ [][Next15]_vars

\* ------------------------------ two confluence-update invocations, one page
\* Two processes run `confluence-update` on the same page at the same time.
\* Each has its own client and session; the server holds the page.
Procs == {"A", "B"}

alone == <<pc, inputs, text, _atlassian_client, session, inflight, sent, resp, received,
           locals, output, ops>>

NotStarted(body) ==
  [pc |-> "cmd", body |-> body, session |-> "none", sent |-> <<>>, received |-> <<>>,
   current_version |-> 0, stdout |-> <<>>, stderr |-> <<>>, exit_code |-> <<>>]

\* cmd_confluence_update up to its first await: the client is built and
\* initialized, and get_confluence_page(page_id) is sent.
update_read(p) ==
  /\ upd[p].pc = "cmd"
  /\ upd' = [upd EXCEPT ![p].pc = "await_read",
                        ![p].session = "open",
                        ![p].sent = Append(@, get_confluence_page(PageId))]
  /\ UNCHANGED page

\* The server answers the read with the page as it stands.
server_get(p) ==
  /\ upd[p].pc = "await_read"
  /\ upd' = [upd EXCEPT ![p].pc = "read",
                        ![p].received =
                          Append(@, [outcome |-> "ok",
                                     version |-> [kind |-> "int", n |-> page.version],
                                     title |-> FetchedTitle, body |-> page.body])]
  /\ UNCHANGED page

\* `current_version = current.get("version", {}).get("number", 1)`, the body is
\* wrapped, and update_confluence_page(..., current_version + 1) is sent.
update_write(p) ==
  /\ upd[p].pc = "read"
  /\ LET current == upd[p].received[Len(upd[p].received)]
         current_version == current_version_of(current.version)
     IN upd' = [upd EXCEPT ![p].pc = "await_write",
                           ![p].current_version = current_version,
                           ![p].sent =
                             Append(@, update_confluence_page(PageId, Title,
                                                              wrap_storage(upd[p].body),
                                                              next_version(current_version)))]
  /\ UNCHANGED page

\* The server accepts a write only when its version is the current version
\* plus one; otherwise it answers with a non-2xx status and keeps the page.
server_put(p) ==
  /\ upd[p].pc = "await_write"
  /\ LET put == upd[p].sent[Len(upd[p].sent)].json
         accepts == put.version.number = page.version + 1
     IN /\ page' = IF accepts
                   THEN [page EXCEPT !.version = put.version.number,
                                     !.body = put.body.storage.value,
                                     !.accepted = Append(@, [by |-> p,
                                                             version |-> put.version.number,
                                                             replaced |-> page.version])]
                   ELSE page
        /\ upd' = [upd EXCEPT ![p].pc = "written",
                              ![p].received =
                                Append(@, [outcome |-> IF accepts THEN "ok" ELSE "non2xx",
                                           version |-> NoVersion, title |-> "", body |-> ""])]

\* The command reads the page again after a rejected write.
UpdateRetriesAfterReject(p) ==
  /\ upd[p].pc = "written"
  /\ LET r == upd[p].received[Len(upd[p].received)]
     IN upd' = IF r.outcome = "ok"
               THEN [upd EXCEPT ![p].pc = "done", ![p].session = "closed",
                                ![p].stdout = Append(@, [json |-> "confluence-update"]),
                                ![p].exit_code = <<0>>]
               ELSE [upd EXCEPT ![p].pc = IF Len(upd[p].sent) < 4 THEN "cmd" ELSE "done"]
  /\ UNCHANGED page

\* After the write: on a 2xx the result is printed, the client closed and the
\* process exits 0; on a non-2xx _put raises out of cmd_confluence_update and
\* main() prints the error and exits 1.
update_finish(p) ==
  /\ upd[p].pc = "written"
  /\ LET r == upd[p].received[Len(upd[p].received)]
     IN upd' = IF r.outcome = "ok"
               THEN [upd EXCEPT ![p].pc = "done", ![p].session = "closed",
                                ![p].stdout = Append(@, [json |-> "confluence-update"]),
                                ![p].exit_code = <<0>>]
               ELSE [upd EXCEPT ![p].pc = "done",
                                ![p].stderr = Append(@, [prefix |-> "Error:",
                                                         error |-> error_name(r.outcome)]),
                                ![p].exit_code = <<1>>]
  /\ UNCHANGED page

cmd_confluence_update_read_concurrent == \E p \in Procs : update_read(p) /\ UNCHANGED alone
page_read == \E p \in Procs : server_get(p) /\ UNCHANGED alone
cmd_confluence_update_write_concurrent == \E p \in Procs : update_write(p) /\ UNCHANGED alone
page_write == \E p \in Procs : server_put(p) /\ UNCHANGED alone
cmd_confluence_update_finish_concurrent == \E p \in Procs : update_finish(p) /\ UNCHANGED alone

\* Both command lines parsed and their texts resolved; the page at some version.
Init14 ==
  /\ pc = "concurrent"
  /\ args = DefaultArgs("confluence-update") /\ stdin = <<>> /\ files = (ExistingFile :> <<>>)
  /\ env = GoodEnv
  /\ text = NotResolved
  /\ _atlassian_client = "None"
  /\ _client = 0 /\ live = {} /\ opened = 0
  /\ inflight = {} /\ sent = <<>> /\ resp = NoResponse /\ received = <<>> /\ raised = <<>>
  /\ locals = NoLocals
  /\ stdout = <<>> /\ stderr = <<>> /\ exit_code = <<>> /\ caught = 0
  /\ ops = <<>>
  /\ \E a \in {<<"a">>, <<"<">>}, b \in {<<"b">>, <<"<">>} :
       upd = [p \in Procs |-> NotStarted(IF p = "A" THEN a ELSE b)]
  /\ \E v \in 1 .. MaxVersion :
       page = [version |-> v, initial |-> v, body |-> FetchedBody, accepted |-> <<>>]

Next14 ==
  \/ cmd_confluence_update_read_concurrent
  \/ page_read
  \/ cmd_confluence_update_write_concurrent
  \/ page_write
  \/ cmd_confluence_update_finish_concurrent

Spec14 == Init14 /\ [][Next14]_vars

\* ------------------------------------------------------------------ claims
\* What the command line and the environment say, read off the inputs alone.
Exited == pc = "done"
CredentialsMissing ==
  \/ env.ATLASSIAN_EMAIL \in {Unset, Some("")}
  \/ env.ATLASSIAN_API_TOKEN \in {Unset, Some("")}
TimeoutInvalid ==
  /\ ~env.ATLASSIAN_TIMEOUT.is_none
  /\ \A n \in 0..99 : ToStr(env.ATLASSIAN_TIMEOUT.val) # str(n)
FileUnreadable ==
  /\ args.command \in TextCommands
  /\ ~args.file.is_none /\ args.file.val # "-" /\ args.file.val \notin DOMAIN files
\* The text the command line designates, when it can be read.
DesignatedText ==
  IF args.file.is_none THEN args.text
  ELSE IF args.file.val = "-" THEN Some(stdin)
  ELSE Some(files[args.file.val])
TextMissing ==
  /\ args.command \in TextRequired
  /\ ~FileUnreadable
  /\ (DesignatedText.is_none \/ DesignatedText.val = <<>>)
\* A response the command cannot use: not a 2xx, no response at all, not JSON,
\* not the expected shape, or a page whose version number is null.
Unusable(r) == r.outcome # "ok" \/ r.version.kind = "null"
ResponseFailure == \E i \in 1..Len(received) : Unusable(received[i])

\* C1: once the HTTP session has been acquired it is released before the
\* process exits, on every path: at exit no session is open and the client
\* holds none.
C1_SessionReleasedAtExit ==
  Exited => (_client = 0 /\ live = {})

\* C2: the write of confluence-update carries the version number its read
\* returned plus one, and the title and body of the command line (the body in
\* its storage form), never the fetched ones.
C2_WriteVersionIsFetchedPlusOne ==
  \A i \in 1..Len(sent) :
    sent[i].method = "PUT" =>
      /\ i = 2
      /\ args.command = "confluence-update"
      /\ sent[1] = get_confluence_page(PageId)
      /\ received[1].outcome = "ok"
      /\ received[1].version.kind = "int"
           => sent[i].json.version.number = received[1].version.n + 1
      /\ sent[i].json.title = Title
      /\ sent[i].json.title # received[1].title
      /\ sent[i].json.body.storage.value
           \in {ToStr(DesignatedText.val), "<p>" \o ToStr(DesignatedText.val) \o "</p>"}
      /\ sent[i].json.body.storage.value # received[1].body

\* C2 witness: a read that returned version 5 is followed by a write of version 6.
C2_Witness ==
  /\ args.command = "confluence-update"
  /\ Len(sent) = 2 /\ Len(received) >= 1
  /\ received[1].version = [kind |-> "int", n |-> 5]
  /\ sent[2].method = "PUT"
  /\ sent[2].json.version.number = 6
  /\ sent[2].json.title = "Updated"

\* C3 as stated: an invocation in which any error is raised (configuration,
\* unreadable file, non-2xx, malformed response) exits with status 1, with one
\* "Error:" line on standard error, caught once, and no result printed; an
\* invocation in which none is raised and that is not a usage error exits 0.
C3_AnyErrorExitsOne ==
  Exited =>
    /\ raised # <<>> =>
         /\ exit_code = <<1>>
         /\ caught = 1
         /\ Len(stderr) = 1 /\ stderr[1].prefix = "Error:"
         /\ stdout = <<>>
    /\ (raised = <<>> /\ ~TextMissing) => exit_code = <<0>>

\* C3 amended: the exit status is 1 exactly when an error escapes to main():
\* an unreadable text file, a configuration error (missing credentials, a
\* timeout that is no number), or an unusable response in
\* any command but test-connection, whose two checks swallow their errors;
\* then the error is caught once, standard error holds one "Error:" line and
\* nothing was printed.  Missing required text is a usage error, status 2,
\* not caught by main().  Every other invocation exits 0 with nothing on
\* standard error.
C3_ExitCodeReflectsEscapedError ==
  Exited =>
    LET expected ==
          IF FileUnreadable THEN 1
          ELSE IF TextMissing THEN 2
          ELSE IF CredentialsMissing \/ TimeoutInvalid THEN 1
          ELSE IF args.command = "test-connection" THEN 0
          ELSE IF ResponseFailure THEN 1
          ELSE 0
    IN /\ exit_code = <<expected>>
       /\ expected = 1 =>
            /\ caught = 1
            /\ Len(stderr) = 1 /\ stderr[1].prefix = "Error:"
            /\ stdout = <<>>
       /\ expected = 2 =>
            /\ caught = 0
            /\ Len(stderr) = 1 /\ stderr[1].prefix = "usage:"
            /\ stdout = <<>>
       /\ expected = 0 =>
            /\ caught = 0
            /\ stderr = <<>>
            /\ stdout # <<>>

\* C3 witness: a command other than test-connection got a non-2xx response and
\* the process exited with status 1 and one "Error:" line.
C3_Witness ==
  /\ Exited
  /\ args.command = "jira-get"
  /\ Len(received) = 1 /\ received[1].outcome = "non2xx"
  /\ exit_code = <<1>> /\ caught = 1
  /\ stderr = << [prefix |-> "Error:", error |-> "HTTPStatusError"] >>
  /\ stdout = <<>>

\* C4 as stated: with the email or the token missing or empty, every
\* invocation ends in a configuration error with status 1, no session, no
\* request and no client handle.
C4_MissingCredentialsExitOne ==
  (Exited /\ CredentialsMissing) =>
    /\ exit_code = <<1>>
    /\ stderr = << [prefix |-> "Error:", error |-> "ValueError"] >>
    /\ opened = 0 /\ sent = <<>> /\ _atlassian_client = "None"

\* C4 amended: with the email or the token missing or empty, no invocation
\* ever creates an HTTP session, issues a request or retains a client handle;
\* every invocation whose text resolves (no unreadable file, no missing
\* required text) ends in a configuration error with status 1.  The others
\* fail before the configuration is read: an unreadable file with status 1,
\* missing required text with status 2.
C4_MissingCredentialsFailFast ==
  CredentialsMissing =>
    /\ opened = 0 /\ live = {} /\ _client = 0
    /\ sent = <<>> /\ inflight = {}
    /\ _atlassian_client = "None"
    /\ Exited =>
         IF FileUnreadable
         THEN exit_code = <<1>> /\ stderr = << [prefix |-> "Error:", error |-> "OSError"] >>
         ELSE IF TextMissing
         THEN exit_code = <<2>>
         ELSE exit_code = <<1>>
              /\ stderr = << [prefix |-> "Error:", error |-> "ValueError"] >>

\* C4 witness: the token is unset, the email is set, and the command has ended
\* in the configuration error without a session or a request.
C4_Witness ==
  /\ Exited
  /\ env.ATLASSIAN_API_TOKEN = Unset /\ env.ATLASSIAN_EMAIL = Some("set")
  /\ args.command = "confluence-update" /\ args.text = Some(<<"a">>)
  /\ exit_code = <<1>>
  /\ stderr = << [prefix |-> "Error:", error |-> "ValueError"] >>
  /\ opened = 0 /\ sent = <<>> /\ _atlassian_client = "None"

\* C5: text resolution takes exactly one source: a file path wins over inline
\* text, "-" reads standard input, any other path reads that file; inline text
\* is used only when no file path is given; with neither the result is absent.
C5_ResolveTextPrecedence ==
  (pc # "main" /\ args.command \in TextCommands) =>
    /\ text.source \in {"inline", "stdin", "file"}
    /\ args.file.is_none =>
         text.source = "inline" /\ ~text.raised /\ text.value = args.text
    /\ (~args.file.is_none /\ args.file.val = "-") =>
         text.source = "stdin" /\ ~text.raised /\ text.value = Some(stdin)
    /\ (~args.file.is_none /\ args.file.val # "-") =>
         /\ text.source = "file"
         /\ text.raised = (args.file.val \notin DOMAIN files)
         /\ ~text.raised => text.value = Some(files[args.file.val])
    /\ (args.file.is_none /\ args.text.is_none) => text.value.is_none

\* C5 witness: inline text and "-" were both given and standard input won.
C5_Witness ==
  /\ pc # "main"
  /\ args.command = "jira-create"
  /\ args.text = Some(<<"a">>) /\ args.file = Some("-")
  /\ stdin = <<" ", "<">>
  /\ text.source = "stdin" /\ text.value = Some(<<" ", "<">>)

\* The trimmed text starts with "<": a "<" preceded by whitespace only.
TrimmedStartsWithLt(t) ==
  \E i \in 1..Len(t) : t[i] = "<" /\ \A j \in 1..(i - 1) : t[j] \in Whitespace

StorageCommands == {"confluence-create", "confluence-update", "confluence-comment"}

\* C6: confluence-create, confluence-update and confluence-comment send
\* "<p>" + text + "</p>" exactly when the trimmed text does not start with
\* "<", and the text unchanged otherwise; the wrap is applied once.
C6_StorageBodyWrappedOnce ==
  \A i \in 1..Len(sent) :
    (args.command \in StorageCommands /\ sent[i].method \in {"POST", "PUT"}) =>
      sent[i].json.body.storage.value =
        IF TrimmedStartsWithLt(DesignatedText.val)
        THEN ToStr(DesignatedText.val)
        ELSE "<p>" \o ToStr(DesignatedText.val) \o "</p>"

\* C6 witness: a comment whose text is " <" (markup after a blank) was sent
\* unchanged, blank included.
C6_Witness ==
  /\ args.command = "confluence-comment"
  /\ args.text = Some(<<" ", "<">>) /\ args.file = Unset
  /\ Len(sent) = 1
  /\ sent[1].json.body.storage.value = " <"

\* C7: jira-search sends maxResults = min(N, 100) for every requested N.
C7_MaxResultsCapped ==
  (args.command = "jira-search" /\ sent # <<>>) =>
    /\ sent[1].params.maxResults = str(IF args.max > 100 THEN 100 ELSE args.max)
    /\ args.max > 100 => sent[1].params.maxResults = "100"
    /\ args.max = 99 => sent[1].params.maxResults = "99"
    /\ args.max = 25 => sent[1].params.maxResults = "25"

\* C7 witness: --max 150 was sent as maxResults 100.
C7_Witness ==
  /\ args.command = "jira-search"
  /\ args.max = 150
  /\ Len(sent) = 1
  /\ sent[1].params.maxResults = "100"

Letters == {"A", "N", "D", "O", "R", "I"}
\* The query holds a CQL operator: "=" or "~" anywhere, or AND, OR or IN as a
\* keyword, that is as a whole word.
HoldsCqlOperator(q) ==
  \/ \E i \in 1..Len(q) : q[i] \in {"=", "~"}
  \/ \E i \in 1..Len(q), j \in 1..Len(q) :
       /\ i <= j
       /\ SubSeq(q, i, j) \in {<<"A", "N", "D">>, <<"O", "R">>, <<"I", "N">>}
       /\ (i = 1 \/ q[i - 1] \notin Letters)
       /\ (j = Len(q) \/ q[j + 1] \notin Letters)

\* C8: confluence-search sends type = "page" AND text ~ "<query>" for every
\* query without a CQL operator and type = "page" AND (<query>) for every
\* query with one; a given space key adds space = "<key>" in between.
C8_CqlByOperator ==
  (args.command = "confluence-search" /\ sent # <<>>) =>
    LET q == ToStr(args.query)
        space == IF truthy(args.space)
                 THEN "space = \"" \o ToStr(args.space.val) \o "\" AND "
                 ELSE ""
    IN sent[1].params.cql =
         IF HoldsCqlOperator(args.query)
         THEN "type = \"page\" AND " \o space \o "(" \o q \o ")"
         ELSE "type = \"page\" AND " \o space \o "text ~ \"" \o q \o "\""

\* The document the issue tracker is to receive for a text.
OneParagraph(doc, t) ==
  /\ doc.type = "doc" /\ doc.version = 1
  /\ Len(doc.content) = 1
  /\ doc.content[1].type = "paragraph"
  /\ Len(doc.content[1].content) = 1
  /\ doc.content[1].content[1].type = "text"
  /\ doc.content[1].content[1].text = ToStr(t)

\* C9: jira-create with a description and jira-comment each send a document
\* (type doc, version 1) of exactly one paragraph with exactly one text node
\* holding the input verbatim; with no or an empty description jira-create
\* sends no description field.
C9_SingleParagraphDocument ==
  /\ (args.command = "jira-create" /\ sent # <<>>) =>
       IF DesignatedText.is_none \/ DesignatedText.val = <<>>
       THEN "description" \notin DOMAIN sent[1].json.fields
       ELSE /\ "description" \in DOMAIN sent[1].json.fields
            /\ OneParagraph(sent[1].json.fields.description, DesignatedText.val)
  /\ (args.command = "jira-comment" /\ sent # <<>>) =>
       OneParagraph(sent[1].json.body, DesignatedText.val)

\* C9 witness: an issue was created with the description " a" read from a file,
\* and the text node holds " a".
C9_Witness ==
  /\ args.command = "jira-create"
  /\ args.file = Some(ExistingFile) /\ files[ExistingFile] = <<" ", "a">>
  /\ Len(sent) = 1
  /\ sent[1].json.fields.description.content[1].content[1].text = " a"

\* C10 as stated: a successful invocation has issued exactly one request, a
\* successful confluence-update exactly two.
C10_OneRequestPerInvocation ==
  (Exited /\ exit_code = <<0>>) =>
    Len(sent) = IF args.command = "confluence-update" THEN 2 ELSE 1

RequestsOf(c) == IF c \in {"confluence-update", "test-connection"} THEN 2 ELSE 1

\* C10 amended: an invocation issues at most one request, exactly one when it
\* succeeds, except confluence-update (the read, then the write) and
\* test-connection (the issue-tracker check, then the wiki check), which issue
\* at most two and exactly two when they succeed; a second request is sent
\* only after the first was answered, and never are two in flight.
C10_RequestsInSequence ==
  /\ Cardinality(inflight) <= 1
  /\ Len(sent) <= RequestsOf(args.command)
  /\ (Exited /\ exit_code = <<0>>) => Len(sent) = RequestsOf(args.command)
  /\ Len(received) = Len(sent) - Cardinality(inflight)
  /\ Len(sent) = 2 =>
       /\ Len(received) >= 1
       /\ args.command = "confluence-update" =>
            /\ sent[1].method = "GET" /\ sent[2].method = "PUT"
            /\ received[1].outcome = "ok"
       /\ args.command = "test-connection" =>
            /\ sent[1] = test_jira_connection_request
            /\ sent[2] = test_confluence_connection_request

\* C10 witness: test-connection has ended successfully after two requests, the
\* first of which failed.
C10_Witness ==
  /\ Exited /\ exit_code = <<0>>
  /\ args.command = "test-connection"
  /\ Len(sent) = 2 /\ Len(received) = 2 /\ inflight = {}
  /\ received[1].outcome = "non2xx"

\* C11: the two connectivity checks never propagate a failure: each gives true
\* when its request succeeds and false on a transport error or a non-2xx
\* response; in test-connection a failed issue-tracker check does not keep
\* the wiki check from running, both results are reported and the exit
\* status is 0.
C11_ConnectivityChecksSwallow ==
  (args.command = "test-connection" /\ sent # <<>>) =>
    /\ caught = 0 /\ stderr = <<>>
    /\ (pc = "call" /\ Len(received) = 1) =>
         /\ received[1].outcome = "ok" => locals.jira_ok
         /\ received[1].outcome \in {"non2xx", "transport"} => ~locals.jira_ok
    /\ Exited =>
         /\ exit_code = <<0>>
         /\ Len(sent) = 2 /\ Len(received) = 2
         /\ sent[2] = test_confluence_connection_request
         /\ Len(stdout) = 2
         /\ stdout[1].line = "Jira" /\ stdout[2].line = "Confluence"
         /\ \A i \in 1..2 :
              /\ received[i].outcome = "ok" => stdout[i].ok
              /\ received[i].outcome \in {"non2xx", "transport"} => ~stdout[i].ok

\* C11 witness: the issue-tracker check met a transport error, the wiki check
\* ran and succeeded, both were reported and the process exited with status 0.
C11_Witness ==
  /\ Exited /\ exit_code = <<0>>
  /\ args.command = "test-connection"
  /\ received[1].outcome = "transport" /\ received[2].outcome = "ok"
  /\ stdout = << [line |-> "Jira", ok |-> FALSE], [line |-> "Confluence", ok |-> TRUE] >>

\* C12: when the resolved text of jira-comment, confluence-comment,
\* confluence-create or confluence-update is absent or empty, the command is
\* rejected with a usage error while the arguments are resolved: no client is
\* built, no HTTP session is opened and no request is issued.
C12_MissingTextIsUsageError ==
  TextMissing =>
    /\ pc \in {"main", "done"}
    /\ _atlassian_client = "None"
    /\ opened = 0 /\ live = {} /\ _client = 0
    /\ sent = <<>> /\ inflight = {}
    /\ Exited =>
         /\ exit_code = <<2>>
         /\ stderr = << [prefix |-> "usage:", error |-> "SystemExit"] >>
         /\ caught = 0 /\ stdout = <<>>

\* C12 witness: confluence-update was given inline text and "-", standard
\* input was empty, and the command ended in the usage error.
C12_Witness ==
  /\ Exited /\ exit_code = <<2>>
  /\ args.command = "confluence-update"
  /\ args.text = Some(<<"a">>) /\ args.file = Some("-") /\ stdin = <<>>
  /\ sent = <<>> /\ opened = 0 /\ _atlassian_client = "None"

\* C13: outside the two connectivity checks a non-2xx response aborts the
\* command: the failed request is not sent again, no further request is
\* issued (after a failed read confluence-update sends no write) and no
\* result is printed.
C13_Non2xxAborts ==
  args.command # "test-connection" =>
    \A i \in 1..Len(received) :
      received[i].outcome = "non2xx" =>
        /\ i = Len(sent) /\ Len(received) = Len(sent)
        /\ inflight = {}
        /\ pc \in {"resume", "done"}
        /\ \A j \in 1..Len(sent) : j # i => sent[j] # sent[i]
        /\ (args.command = "confluence-update" /\ i = 1) =>
             \A j \in 1..Len(sent) : sent[j].method # "PUT"
        /\ stdout = <<>>
        /\ Exited => (exit_code = <<1>> /\ raised = <<"HTTPStatusError">>)

\* C13 witness: the read of confluence-update got a non-2xx response and the
\* command ended with that one request, nothing printed, status 1.
C13_Witness ==
  /\ Exited /\ exit_code = <<1>>
  /\ args.command = "confluence-update"
  /\ Len(sent) = 1 /\ sent[1].method = "GET"
  /\ Len(received) = 1 /\ received[1].outcome = "non2xx"
  /\ stdout = <<>>


\* C14: against a server that accepts a page write only at the current version
\* plus one, two confluence-update invocations that both read version v before
\* either writes end with exactly one write accepted and the other rejected;
\* the rejected invocation sent its stale write (it did not notice locally),
\* sent nothing after it (no re-read, no retry) and exited 1; the page version
\* rises by one per accepted write and every accepted write replaced the very
\* version its writer had read.
Fetched(p) == upd[p].received[1].version.n

BothReadSame ==
  /\ \A p \in Procs : Len(upd[p].received) >= 1
  /\ Fetched("A") = Fetched("B")

C14_ConcurrentUpdatesOneAccepted ==
  /\ page.version = page.initial + Len(page.accepted)
  /\ \A i \in 1 .. Len(page.accepted) :
       LET w == page.accepted[i]
       IN /\ w.version = page.initial + i
          /\ w.replaced = w.version - 1
          /\ Fetched(w.by) = w.replaced
          /\ upd[w.by].current_version = w.replaced
  /\ \A p \in Procs :
       /\ Len(upd[p].sent) <= 2
       /\ Len(upd[p].sent) >= 1 => upd[p].sent[1] = get_confluence_page(PageId)
       /\ Len(upd[p].sent) = 2 =>
            upd[p].sent[2] = update_confluence_page(PageId, Title, wrap_storage(upd[p].body),
                                                    Fetched(p) + 1)
       /\ upd[p].pc = "done" =>
            /\ Len(upd[p].sent) = 2 /\ Len(upd[p].received) = 2
            /\ upd[p].exit_code = IF upd[p].received[2].outcome = "ok" THEN <<0>> ELSE <<1>>
            /\ (upd[p].stdout # <<>>) = (upd[p].exit_code = <<0>>)
  /\ BothReadSame =>
       /\ Len(page.accepted) <= 1
       /\ (\A p \in Procs : upd[p].pc = "done") =>
            /\ Len(page.accepted) = 1
            /\ \E winner \in Procs :
                 LET loser == CHOOSE q \in Procs : q # winner
                 IN /\ page.accepted[1].by = winner
                    /\ upd[winner].exit_code = <<0>>
                    /\ page.body = wrap_storage(upd[winner].body)
                    /\ upd[loser].received[2].outcome = "non2xx"
                    /\ upd[loser].exit_code = <<1>>
                    /\ upd[loser].stdout = <<>>

\* Both invocations read the same version, both wrote, one was rejected and
\* both have exited.
C14_Witness ==
  /\ pc = "concurrent"
  /\ BothReadSame
  /\ \A p \in Procs : upd[p].pc = "done"
  /\ Len(page.accepted) = 1
  /\ page.accepted[1].by = "B"
  /\ upd["A"].exit_code = <<1>>
  /\ upd["B"].exit_code = <<0>>
  /\ page.version = Fetched("A") + 1

\* C15: over any sequence of initialize, close and request operations on one
\* transport client at most one HTTP session is open and none is dropped
\* unclosed: the open sessions are exactly the one the client holds;
\* initialize keeps a session it finds; close leaves none and changes nothing
\* when it finds none; a request that finds none opens a new one, which stays
\* until the next close.
HoldsOnly(s) == s.live = (IF s._client = 0 THEN {} ELSE {s._client})

C15_AtMostOneSessionNoneDropped ==
  /\ Cardinality(live) <= 1
  /\ HoldsOnly(session_of(_client, live, opened))
  /\ Len(ops) > 0 => ops[Len(ops)].after = session_of(_client, live, opened)
  /\ \A i \in 1 .. Len(ops) :
       LET o == ops[i]
           opens == /\ o.after._client # 0
                    /\ o.after.opened = o.before.opened + 1
                    /\ o.after._client \notin {ops[j].after._client : j \in 1 .. (i - 1)}
       IN /\ o.before = (IF i = 1 THEN session_of(0, {}, 0) ELSE ops[i - 1].after)
          /\ HoldsOnly(o.after)
          /\ Cardinality(o.after.live) <= 1
          /\ (o.op = "initialize" /\ o.before._client # 0) => o.after = o.before
          /\ (o.op = "initialize" /\ o.before._client = 0) => opens
          /\ o.op = "close" => o.after._client = 0 /\ o.after.live = {}
          /\ (o.op = "close" /\ o.before._client = 0) => o.after = o.before
          /\ (o.op \in {"request", "request_raised"} /\ o.before._client = 0) => opens
          /\ (o.op \in {"request", "request_raised"} /\ o.before._client # 0) =>
               o.after = o.before
  /\ \A i \in 1 .. Len(ops) : \A j \in i .. Len(ops) :
       (/\ ops[i].op \in {"request", "request_raised"}
        /\ \A k \in (i + 1) .. j : ops[k].op # "close")
       => ops[j].after._client = ops[i].after._client

\* close on a fresh client, a request that opens a session, initialize on the
\* client that holds it, close, and a request after close that opens another.
C15_Witness ==
  /\ pc = "client"
  /\ Len(ops) = 5
  /\ ops[1].op = "close" /\ ops[1].after = ops[1].before
  /\ ops[2].op = "request_raised" /\ ops[2].after._client = 1
  /\ ops[3].op = "initialize" /\ ops[3].after._client = 1
  /\ ops[4].op = "close" /\ ops[4].before._client = 1 /\ ops[4].after._client = 0
  /\ ops[5].op = "request" /\ ops[5].after._client = 2
  /\ live = {2}

====
